---- MODULE Spec2Model ----
(***************************************************************************)
(* A model of evoflow's generation pipeline: the TrainerBuilder            *)
(* (src/src/evotrainer/trainer_builder.rs), the EvoTrainer                 *)
(* (src/src/evotrainer/evotrainer.rs), the parent selection strategies     *)
(* (src/src/evotrainer/crossover.rs), the EvoNet genome                    *)
(* (src/src/evonet.rs) and the fitness function of src/src/main.rs.        *)
(*                                                                         *)
(* f64 values are modelled exactly.  A rate, a weight of a net and a value *)
(* a random generator returns are fractions <<num, den>> with den > 0; the *)
(* values drawn are dyadic, so the f64 arithmetic on them is exact, and a  *)
(* weight is kept in lowest terms.  An output of a net is kept as the sum  *)
(* it is, or the tanh of it, and rounded by a threshold or through bounds. *)
(* A fitness is an integer, or one of the two NaNs.  Option<T> is a        *)
(* sequence: None is << >> and Some(x) is <<x>>.                           *)
(***************************************************************************)
EXTENDS Integers, Sequences, FiniteSets, TLC

\* ------------------------------------------------------------ bounds
\* Largest population_size given to the builder.
MaxPop == 3
\* Largest number of generations asked of train.
MaxGen == 1
\* Largest number of add_parent_selection_strategy calls on one builder.
MaxAdds == 3

\* ------------------------------------------------------------ panics
TodoMsg == "not yet implemented: Generate from copy"
EmptyRangeMsg == "cannot sample empty range"
SliceOrderMsg == "slice index starts after its end"
SubtractMsg == "attempt to subtract with overflow"
IndexMsg == "index out of bounds"

\* A usize subtraction below zero: with overflow checks (a debug build) it
\* panics on the spot; without them (a release build) it wraps to a huge
\* value, and the use of that value panics with the message given.
WrappedSubtract(then) == { SubtractMsg, then }

\* ------------------------------------------------------------ f64 helpers
\* `x as usize` of the f64 num/den (den > 0): truncation, negatives saturate to 0.
AsUsize(num, den) == IF num <= 0 THEN 0 ELSE num \div den

\* r < 0.0 and r > 1.0 on a fraction.
RateBelowZero(r) == r[1] < 0
RateAboveOneUnchecked(r) == FALSE
RateAboveOne(r) == r[1] > r[2]

Abs(x) == IF x < 0 THEN 0 - x ELSE x

RECURSIVE Gcd(_, _)
Gcd(a, b) == IF b = 0 THEN a ELSE Gcd(b, a % b)

\* The fraction f in lowest terms: the form in which a weight is kept.
Lowest(f) == LET g == Gcd(Abs(f[1]), f[2]) IN <<f[1] \div g, f[2] \div g>>

\* a + b, a * b, a <= b and a < b on fractions.
FAdd(a, b) == <<a[1] * b[2] + b[1] * a[2], a[2] * b[2]>>
FMul(a, b) == <<a[1] * b[1], a[2] * b[2]>>
FLe(a, b) == a[1] * b[2] <= b[1] * a[2]
FLt(a, b) == a[1] * b[2] < b[1] * a[2]

\* f64::NAN and -f64::NAN as fitness values.  total_cmp orders f64 values by
\* their bits read as a signed integer: -NaN is below every number and NaN
\* above every number; here they are the integers below and above every
\* fitness a net of the model can score.
NaN == 1000
NegNaN == 0 - 1000
IsNaN(x) == x = NaN \/ x = NegNaN

\* f64::total_cmp on two fitness values.
TotalCmp(x, y) == IF x < y THEN "Less" ELSE IF x = y THEN "Equal" ELSE "Greater"

\* ------------------------------------------------------------ EvoNet
\* The rows of weights of every layer of a net of this architecture, each
\* weight drawn from S: layer i (1 <= i < len) has architecture[i] neurons of
\* architecture[i-1] + 1 weights.  (TLA+ sequences count from 1.)
RECURSIVE LayerSeqs(_, _, _)
LayerSeqs(architecture, n, S) ==
    IF n <= 1 THEN { << >> }
    ELSE { Append(ls, [w |-> m]) :
             ls \in LayerSeqs(architecture, n - 1, S),
             m \in [1..architecture[n] -> [1..(architecture[n - 1] + 1) -> S]] }

\* The values rand::random::<f64>() is drawn from: values of [0, 1).
Randoms == { <<0, 1>>, <<3, 4>> }

\* Layer::new's weight for one value of random(): 2 * random() - 1.
LayerNewWeight(r) == Lowest(FAdd(FMul(<<2, 1>>, r), <<0 - 1, 1>>))

\* The weights Layer::new gives: values of [-1, 1).
SpawnWeights == { LayerNewWeight(r) : r \in Randoms }

\* EvoNet::new: one random layer per architecture entry after the first,
\* fitness 0.0.
EvoNetNew(architecture) ==
    { [layers |-> ls, fitness |-> 0] :
        ls \in LayerSeqs(architecture, Len(architecture), SpawnWeights) }

\* EvoNet::set_fitness.
SetFitness(net, ft) == [net EXCEPT !.fitness = ft]

\* forward's sum over k in 0..n of w[i][k] * x[k], from sum = 0.0.
RECURSIVE Dot(_, _, _)
Dot(w, x, n) == IF n = 0 THEN <<0, 1>> ELSE FAdd(Dot(w, x, n - 1), FMul(w[n], x[n]))

\* The sum of a neuron: a constant and, per output y[k] of the layer before,
\* the weight it is multiplied by.  The sum of a neuron of the first layer is
\* a constant alone.
Sum(const, terms) == [const |-> const, terms |-> terms]

\* forward's sum = w[i][0]; sum += w[i][k + 1] * y[k] over the layer before.
Lin(row, y) == Sum(row[1], [k \in DOMAIN y |-> <<row[k + 1], y[k]>>])

\* activators::tanh: the f64 tanh(v), kept as the sum it is the tanh of.
Tanh(v) == [tanh |-> v]

\* forward up to layer j (from 1): the y of that layer.  The first layer is
\* tanh of the sums over x; the last layer, when it is not the first, is its
\* sums themselves; every layer between is tanh of its sums.
RECURSIVE ForwardTo(_, _, _)
ForwardTo(net, x, j) ==
    IF j = 1
    THEN [i \in DOMAIN net.layers[1].w |->
            Tanh(Sum(Dot(net.layers[1].w[i], x, Len(x)), << >>))]
    ELSE LET y == ForwardTo(net, x, j - 1) IN
         [i \in DOMAIN net.layers[j].w |->
            IF j = Len(net.layers)
            THEN Lin(net.layers[j].w[i], y)
            ELSE Tanh(Lin(net.layers[j].w[i], y))]

\* forward: every layer in turn; what calc reads is the y of the last one.
Forward(net, x) == ForwardTo(net, x, Len(net.layers))

\* The panics calc(X) ends in on this net, none when the set is empty: with
\* no layer, layers.len() - 1 is 0 - 1 and the wrapped value indexes layers;
\* with a row of the first layer shorter than x, or a row of a later layer
\* shorter than 1 + the y before it, w[i][k] is out of bounds.
CalcPanics(net, X) ==
    IF Len(net.layers) = 0 THEN WrappedSubtract(IndexMsg)
    ELSE IF \/ \E i \in DOMAIN net.layers[1].w : Len(net.layers[1].w[i]) < Len(X) + 1
            \/ \E j \in 2..Len(net.layers) : \E i \in DOMAIN net.layers[j].w :
                  Len(net.layers[j].w[i]) < Len(net.layers[j - 1].w) + 1
    THEN { IndexMsg }
    ELSE { }

\* EvoNet::calc: 1.0 is put before X, forward runs, the last layer's y is
\* returned.
Calc(net, X) == Forward(net, <<<<1, 1>>>> \o X)

\* ------------------------------------------------------------ bounds of an output
\* An output that is not tanh of a constant is rounded through bounds
\* <<lo, hi>> on its value, in units of 1 / Scale: lo / Scale <= value <= hi / Scale.
Scale == 10000

CeilDiv(a, b) == 0 - ((0 - a) \div b)
Least(S) == CHOOSE m \in S : \A n \in S : m <= n
Greatest(S) == CHOOSE m \in S : \A n \in S : m >= n

FracBounds(f) == <<(f[1] * Scale) \div f[2], CeilDiv(f[1] * Scale, f[2])>>
AddBounds(a, b) == <<a[1] + b[1], a[2] + b[2]>>
MulBounds(a, b) ==
    LET products == { a[1] * b[1], a[1] * b[2], a[2] * b[1], a[2] * b[2] }
    IN  <<Least(products) \div Scale, CeilDiv(Greatest(products), Scale)>>

\* tanh(x) = x / t(0) with t(k) = (2k + 1) + x^2 / t(k + 1) (Lambert's
\* continued fraction); t(LambertDepth) is between 2k + 1 and
\* (2k + 1) + x^2 / (2k + 3).  x2 bounds x^2.
LambertDepth == 10
RECURSIVE Lambert(_, _)
Lambert(k, x2) ==
    IF k = LambertDepth
    THEN <<(2 * k + 1) * Scale, (2 * k + 1) * Scale + CeilDiv(x2[2], 2 * k + 3)>>
    ELSE LET next == Lambert(k + 1, x2) IN
         <<(2 * k + 1) * Scale + (x2[1] * Scale) \div next[2],
           (2 * k + 1) * Scale + CeilDiv(x2[2] * Scale, next[1])>>

\* Bounds of tanh(x / Scale) for x >= 0; past TanhFlat, tanh is between
\* tanh(4.0) = 0.99932... and 1.0.
TanhFlat == 40000
TanhOfPositive(x) ==
    IF x > TanhFlat THEN <<9993, Scale>>
    ELSE LET t == Lambert(0, <<(x * x) \div Scale, CeilDiv(x * x, Scale)>>)
             hi == CeilDiv(x * Scale, t[1])
         IN  <<(x * Scale) \div t[2], IF hi > Scale THEN Scale ELSE hi>>

\* Bounds of tanh over the bounds b: tanh is odd and increasing.
TanhBounds(b) ==
    <<IF b[1] >= 0 THEN TanhOfPositive(b[1])[1] ELSE 0 - TanhOfPositive(0 - b[1])[2],
      IF b[2] >= 0 THEN TanhOfPositive(b[2])[2] ELSE 0 - TanhOfPositive(0 - b[2])[1]>>

\* Bounds of a sum, and of the first n of its terms.
RECURSIVE TermsBounds(_, _)
SumBounds(sum) == AddBounds(FracBounds(sum.const), TermsBounds(sum.terms, Len(sum.terms)))
TermsBounds(terms, n) ==
    IF n = 0 THEN <<0, 0>>
    ELSE AddBounds(TermsBounds(terms, n - 1),
                   MulBounds(FracBounds(terms[n][1]),
                             TanhBounds(SumBounds(terms[n][2].tanh))))

\* f64::round of v / Scale: half away from zero.
RoundScaled(v) ==
    IF v >= 0 THEN (2 * v + Scale) \div (2 * Scale)
    ELSE 0 - ((Scale - 2 * v) \div (2 * Scale))

\* atanh(0.5) = 0.5493061..., rounded up to six places: tanh(v) >= 0.5 when v
\* is at least this.
AtanhHalf == <<549307, 1000000>>

\* f64::round of tanh of a constant (half away from zero): 1.0 from 0.5 up,
\* -1.0 from -0.5 down, else 0.0, which is also what -0.0 equals.
RoundTanh(y) ==
    IF FLe(AtanhHalf, y.tanh.const) THEN 1
    ELSE IF FLe(y.tanh.const, <<0 - AtanhHalf[1], AtanhHalf[2]>>) THEN 0 - 1
    ELSE 0

\* What f64::round can give for the first output of calc(X): the one value of
\* a one-layer net, whose output is tanh of a constant (no constant of the
\* model lies within 0.000001 of atanh(0.5)), and for a net of more layers
\* every value from the rounded lower bound of its sum to the rounded upper
\* bound, two values only when the sum is within 3 / Scale of a half.
Rounds(net, X) ==
    IF Len(net.layers) = 1 THEN { RoundTanh(Calc(net, X)[1]) }
    ELSE LET b == SumBounds(Calc(net, X)[1]) IN RoundScaled(b[1])..RoundScaled(b[2])

\* xor_fit_fn's fit for an input: 1.0 when the rounded output is the XOR of
\* the input, -1.0 when it is not.
Fits(net, X, xor) == { IF r = xor THEN 1 ELSE 0 - 1 : r \in Rounds(net, X) }

\* xor_fit_fn: +1.0 for each of the four XOR inputs whose rounded first output
\* is the XOR of the input, -1.0 for each other one.  The scores it can
\* return for the net: one, unless an output is within the bounds' width of a
\* half, where the rounding of the f64 sum and of tanh decides.
XorFitFn(net) ==
    { fit0 + fit1 + fit2 + fit3 :
        fit0 \in Fits(net, << <<0, 1>>, <<0, 1>> >>, 0),
        fit1 \in Fits(net, << <<0, 1>>, <<1, 1>> >>, 1),
        fit2 \in Fits(net, << <<1, 1>>, <<0, 1>> >>, 1),
        fit3 \in Fits(net, << <<1, 1>>, <<1, 1>> >>, 0) }

\* The panics xor_fit_fn ends in on this net: those of its first calc, and
\* the [0] of an output without a neuron.
XorFitFnPanics(net) ==
    IF CalcPanics(net, << <<0, 1>>, <<0, 1>> >>) # { }
    THEN CalcPanics(net, << <<0, 1>>, <<0, 1>> >>)
    ELSE IF Len(net.layers[Len(net.layers)].w) = 0 THEN { IndexMsg }
    ELSE { }

\* The fitness functions handed to the builder (fn(&mut EvoNet) -> f64):
\* "xor_fit_fn" is main.rs's; "xor_nan" and "xor_neg_nan" are a caller's that
\* return f64::NAN and -f64::NAN for a net xor_fit_fn scores -2.0 and
\* xor_fit_fn's score for every other net.
FitnessFns == {"xor_fit_fn"}
NaNFitnessFns == {"xor_nan", "xor_neg_nan"}

\* (self.fitness_fn)(net): the values the call can return.
ApplyFitnessFn(fitness_fn, net) ==
    CASE fitness_fn = "xor_nan" ->
           { IF score = 0 - 2 THEN NaN ELSE score : score \in XorFitFn(net) }
      [] fitness_fn = "xor_neg_nan" ->
           { IF score = 0 - 2 THEN NegNaN ELSE score : score \in XorFitFn(net) }
      [] OTHER -> XorFitFn(net)

\* The net after let ft = (fitness_fn)(net); net.set_fitness(ft), for every
\* value the call can return.
WithFitness(fitness_fn, net) ==
    { SetFitness(net, ft) : ft \in ApplyFitnessFn(fitness_fn, net) }

\* The panics (self.fitness_fn)(net) ends in: every function evaluates the
\* net as xor_fit_fn does.
FitnessFnPanics(fitness_fn, net) == XorFitFnPanics(net)

\* The values rng.gen_range(0.0..=1.0) is drawn from in from_parents.
Draws == { <<0, 1>>, <<1, 1>> }

\* rng.gen_range(0.0..=1.0) > fitness_ratio, where
\* fitness_ratio = p1_fitness / (p1_fitness + p2_fitness): a zero denominator
\* gives NaN (never exceeded), +inf (never exceeded) or -inf (always exceeded).
DrawReachesRatio(d, p1_fitness, p2_fitness) ==
    LET s == p1_fitness + p2_fitness IN
    IF s = 0 THEN p1_fitness < 0
    ELSE IF s > 0 THEN d[1] * s >= p1_fitness * d[2]
    ELSE d[1] * s <= p1_fitness * d[2]
DrawExceedsRatio(d, p1_fitness, p2_fitness) ==
    LET s == p1_fitness + p2_fitness IN
    IF s = 0 THEN p1_fitness < 0
    ELSE IF s > 0 THEN d[1] * s > p1_fitness * d[2]
    ELSE d[1] * s < p1_fitness * d[2]

\* Layer::new_from_parents: l1's weights, each replaced by l2's weight at the
\* same position when that position's draw exceeds the fitness ratio.
LayerNewFromParents(l1, l2, p1_fitness, p2_fitness, draws) ==
    [w |-> [i \in DOMAIN l1.w |->
              [j \in DOMAIN l1.w[i] |->
                 IF DrawExceedsRatio(draws[i][j], p1_fitness, p2_fitness)
                 THEN l2.w[i][j] ELSE l1.w[i][j]]]]

\* EvoNet::from_parents: one recombined layer per layer of p1, fitness 0.0.
FromParents(p1, p2, p1_fitness, p2_fitness, draws) ==
    [layers |-> [i \in DOMAIN p1.layers |->
                   LayerNewFromParents(p1.layers[i], p2.layers[i],
                                       p1_fitness, p2_fitness, draws[i].w)],
     fitness |-> 0]

\* rng.gen_range(0.0..=1.0) <= frequency
DrawWithin(d, frequency) == FLe(d, frequency)

\* The StandardNormal samples mutate draws; 0.1 * sample is exact for them.
NormalSamples == { <<0 - 10, 1>>, <<0, 1>>, <<10, 1>> }
Amount(sample) == Lowest(FMul(<<1, 10>>, sample))

\* f64::clamp
Clamp(x, min, max) == IF FLt(x, min) THEN min ELSE IF FLt(max, x) THEN max ELSE x

\* EvoNet::mutate: every weight whose draw is within frequency becomes
\* (weight + 0.1 * sample).clamp(0.0, 1.0).  (A layer has one row of w per
\* entry of v, so the loop over v.len() is the loop over the rows.)
Mutate(net, frequency, draws, samples) ==
    [net EXCEPT !.layers =
        [layer \in DOMAIN net.layers |->
           [w |-> [neuron \in DOMAIN net.layers[layer].w |->
                     [weight \in DOMAIN net.layers[layer].w[neuron] |->
                        IF DrawWithin(draws[layer].w[neuron][weight], frequency)
                        THEN Lowest(Clamp(FAdd(net.layers[layer].w[neuron][weight],
                                               Amount(samples[layer].w[neuron][weight])),
                                          <<0, 1>>, <<1, 1>>))
                        ELSE net.layers[layer].w[neuron][weight]]]]]]

\* ------------------------------------------------------------ FitnessPair
\* impl PartialOrd for FitnessPair: a <= b, a >= b, a < b through total_cmp.
PairLe(a, b) == TotalCmp(a.fitness, b.fitness) # "Greater"
PairGe(a, b) == TotalCmp(a.fitness, b.fitness) # "Less"
PairLt(a, b) == TotalCmp(a.fitness, b.fitness) = "Less"

\* std BinaryHeap::sift_up(start, pos) with the hole's element e; data is
\* indexed from 0 in the source, from 1 here.
RECURSIVE SiftUp(_, _, _, _)
SiftUp(data, e, start, pos) ==
    LET parent == (pos - 1) \div 2 IN
    IF pos > start /\ ~PairLe(e, data[parent + 1])
    THEN SiftUp([data EXCEPT ![pos + 1] = data[parent + 1]], e, start, parent)
    ELSE [data EXCEPT ![pos + 1] = e]

\* BinaryHeap::push
HeapPush(data, item) == SiftUp(Append(data, item), item, 0, Len(data))

\* std BinaryHeap::sift_down_range(pos, end) with the hole's element e.
RECURSIVE SiftDownRange(_, _, _, _)
SiftDownRange(data, e, pos, end) ==
    LET child == 2 * pos + 1
        last  == IF end >= 2 THEN end - 2 ELSE 0
    IN  IF child <= last
        THEN LET c == IF PairLe(data[child + 1], data[child + 2])
                      THEN child + 1 ELSE child
             IN  IF PairGe(e, data[c + 1])
                 THEN [data EXCEPT ![pos + 1] = e]
                 ELSE SiftDownRange([data EXCEPT ![pos + 1] = data[c + 1]], e, c, end)
        ELSE IF child = end - 1 /\ PairLt(e, data[child + 1])
             THEN [data EXCEPT ![pos + 1] = data[child + 1], ![child + 1] = e]
             ELSE [data EXCEPT ![pos + 1] = e]

\* The loop of BinaryHeap::into_sorted_vec: swap the root with the last
\* element of the heap, shrink the heap by one, sift the new root down.
RECURSIVE SortDown(_, _)
SortDown(data, end) ==
    IF end > 1
    THEN LET e2      == end - 1
             swapped == [data EXCEPT ![1] = data[e2 + 1], ![e2 + 1] = data[1]]
         IN  SortDown(SiftDownRange(swapped, swapped[1], 0, e2), e2)
    ELSE data

\* BinaryHeap::into_sorted_vec
IntoSortedVecUnsorted(data) == data
IntoSortedVec(data) == SortDown(data, Len(data))

\* calculate_pop_fitness's effect on the first n slots of the population:
\* every net is scored by the fitness function and the score is cached in it.
RECURSIVE ScoredTo(_, _, _)
ScoredTo(pop, fitness_fn, n) ==
    IF n = 0 THEN { << >> }
    ELSE UNION { { Append(scored, net) : net \in WithFitness(fitness_fn, pop[n]) } :
                   scored \in ScoredTo(pop, fitness_fn, n - 1) }
Scored(pop, fitness_fn) == ScoredTo(pop, fitness_fn, Len(pop))

\* The loop of calculate_pop_fitness over slots n..len: the heap after pushing
\* one FitnessPair per slot, with the ft_score just cached in the slot's net
\* (indices count from 0 in the source).
RECURSIVE PushAll(_, _, _)
PushAll(scored, n, heap) ==
    IF n > Len(scored) THEN heap
    ELSE PushAll(scored, n + 1,
                 HeapPush(heap, [fitness |-> scored[n].fitness, index |-> n - 1]))

\* calculate_pop_fitness's return value: the pairs sorted from low to high.
RankedPairs(scored) == IntoSortedVec(PushAll(scored, 1, << >>))

\* ------------------------------------------------------------ Strategies
\* The enum Strategies: kind is the variant, weight its weight, rounds the
\* Tournement's rounds (0 otherwise), rate the PrimeParent's rate (0.0 otherwise).
Tournement(weight, rounds) ==
    [kind |-> "Tournement", weight |-> weight, rounds |-> rounds, rate |-> <<0, 1>>]
PrimeParent(weight, rate) ==
    [kind |-> "PrimeParent", weight |-> weight, rounds |-> 0, rate |-> rate]
Roulette(weight) ==
    [kind |-> "Roulette", weight |-> weight, rounds |-> 0, rate |-> <<0, 1>>]

\* impl PartialEq for Strategies: two strategies are equal when they are the
\* same variant.
StrategiesEq(a, b) == a.kind = b.kind

\* ParentSelectionStrategy::get_weight
GetWeight(strat) == strat.weight

\* ------------------------------------------------------------ TrainerBuilder
VARIABLES
    builder,        \* the TrainerBuilder's fields
    build_result    \* how the last call of build ended: [tag, msg], the tag
                    \* "Ok", an error's, or "Panic"

\* TrainerBuilder::new
BuilderNew ==
    [parent_strategies |-> << >>,
     population_size   |-> << >>,
     survival_rate     |-> << >>,
     crossover_rate    |-> << >>,
     mutation_rate     |-> << >>,
     architecture      |-> << >>,
     fitness_function  |-> << >>]

\* Option::unwrap_or
UnwrapOr(opt, default) == IF Len(opt) = 0 THEN default ELSE opt[1]

\* The checks of build, in the order of the source: the error build returns,
\* or tag "Ok" when it goes on to EvoTrainer::initialize.
BuildCheck(b) ==
    LET surv_rate  == UnwrapOr(b.survival_rate, <<0, 1>>)
        cross_rate == UnwrapOr(b.crossover_rate, <<0, 1>>)
        mut_rate   == UnwrapOr(b.mutation_rate, <<0, 1>>)
    IN
    IF Len(b.population_size) = 0
    THEN [tag |-> "VariableNotSet", msg |-> "population_size not set"]
    ELSE IF Len(b.architecture) = 0
    THEN [tag |-> "VariableNotSet", msg |-> "architecture not set"]
    ELSE IF Len(b.fitness_function) = 0
    THEN [tag |-> "VariableNotSet", msg |-> "fitness_function not set"]
    ELSE IF b.population_size[1] <= 1
    THEN [tag |-> "ValidationError", msg |-> "population_size must be greater than 1"]
    ELSE IF \E n \in DOMAIN b.architecture[1] : b.architecture[1][n] = 0
    THEN [tag |-> "ValidationError", msg |-> "architecure cannot contain 0's"]
    ELSE IF RateBelowZero(surv_rate) \/ RateAboveOne(surv_rate)
    THEN [tag |-> "ValidationError", msg |-> "survival_rate must be between 0.0..=1.0"]
    ELSE IF RateBelowZero(cross_rate) \/ RateAboveOne(cross_rate)
    THEN [tag |-> "ValidationError", msg |-> "crossover_rate must be between 0.0..=1.0"]
    ELSE IF RateBelowZero(mut_rate) \/ RateAboveOne(mut_rate)
    THEN [tag |-> "ValidationError", msg |-> "mutation_rate must be between 0.0..=1.0"]
    ELSE [tag |-> "Ok", msg |-> ""]

\* The crossover rate build hands to initialize: 0.0 when no strategy is set.
BuildCrossRateAsSet(b) == UnwrapOr(b.crossover_rate, <<0, 1>>)
BuildCrossRate(b) ==
    IF Len(b.parent_strategies) = 0 THEN <<0, 1>>
    ELSE UnwrapOr(b.crossover_rate, <<0, 1>>)

\* TrainerBuilder::add_parent_selection_strategy on the strategy list: the
\* first entry equal to the strategy is overwritten, else it is pushed.
AddStrategyPushes(list, strategy) == Append(list, strategy)
AddStrategy(list, strategy) ==
    LET same == { n \in DOMAIN list : StrategiesEq(list[n], strategy) } IN
    IF same # {}
    THEN [list EXCEPT ![CHOOSE n \in same : \A o \in same : n <= o] = strategy]
    ELSE Append(list, strategy)

\* ------------------------------------------------------------ EvoTrainer
VARIABLES
    population,             \* Vec<EvoNet>
    fitness_fn,
    survival_rate,
    crossover_rate,
    mutation_rate,
    crossover_strategies,   \* Vec<Box<dyn ParentSelectionStrategy>>
    crossover_weight_sum

\* The fold of initialize over the strategies: sum + (sum + weight) each.
RECURSIVE WeightFold(_)
WeightFold(strategies) ==
    IF Len(strategies) = 0 THEN 0
    ELSE LET sum == WeightFold(SubSeq(strategies, 1, Len(strategies) - 1)) IN
         sum + (sum + GetWeight(strategies[Len(strategies)]))

\* spawn_population: capacity() nets, each EvoNet::new with its fitness set.
\* Vec::with_capacity(n) of a sized type allocates for exactly n elements.
SpawnPopulation(population_size, architecture, fit_fn) ==
    [1..population_size ->
        UNION { WithFitness(fit_fn, net) : net \in EvoNetNew(architecture) }]

trainerVars == <<population, fitness_fn, survival_rate, crossover_rate,
                 mutation_rate, crossover_strategies, crossover_weight_sum>>

\* EvoTrainer::initialize as build calls it: the trainer's fields; pop is the
\* population spawn_population made.
Initialize(b, pop) ==
    [population           |-> pop,
     fitness_fn           |-> b.fitness_function[1],
     survival_rate        |-> UnwrapOr(b.survival_rate, <<0, 1>>),
     crossover_rate       |-> BuildCrossRate(b),
     mutation_rate        |-> UnwrapOr(b.mutation_rate, <<0, 1>>),
     crossover_strategies |-> b.parent_strategies,
     crossover_weight_sum |-> WeightFold(b.parent_strategies)]

\* ------------------------------------------------------------ train
VARIABLES
    pc,             \* where the program is: "builder", "built", "rank", "next_gen",
                    \* "crossover", "offspring", "redraw", "children", "returned",
                    \* "panic"
    panic,          \* the panic message once pc = "panic"
    generations,    \* train's argument
    pop_fitness,    \* train's pop_fitness, create_next_gen's fitness_pairs
    dead_pop,       \* create_next_gen's dead_pop
    crossover_pop,  \* create_next_gen's crossover_pop
    copy_pop,       \* create_next_gen's copy_pop
    i,              \* crossover's cursor i
    j,              \* crossover's j of the strategy at work
    strat_pos,      \* position (from 0) of the strategy at work in crossover's loop
    families,       \* create_offspring's children, then crossover's families
    child_pos,      \* how many of families crossover has materialised
    p_a_i,          \* PrimeParentStrategy's p_a_i while it redraws p_b_i
    p_b_i

\* What the run has done in the generation at work (history, not program state).
VARIABLES
    ranked,         \* what calculate_pop_fitness returned
    ranked_population,  \* the population as calculate_pop_fitness left it
    calls,          \* the create_offspring calls: [strat_pos, pool, slots]
    written         \* the population slots written, in order

trainVars == <<pc, panic, generations, pop_fitness, dead_pop, crossover_pop,
               copy_pop, i, j, strat_pos, families, child_pos, p_a_i, p_b_i>>
histVars == <<ranked, ranked_population, calls, written>>

\* The strategies add_parent_selection_strategy was called with, in the order
\* of the calls (history, not program state).
VARIABLES added

\* The call of a function that is run on its own: its name, its arguments, the
\* random values it drew and what it returned; NoCall before the call.
VARIABLES frame

NoCall == [fn |-> "none"]

vars == <<builder, build_result, trainerVars, trainVars, histVars, added, frame>>

\* train(generations): with no generation to run it returns at once.
Train(n) ==
    /\ pc \in {"built", "returned"}
    /\ generations' = n
    /\ pc' = IF n = 0 THEN "returned" ELSE "rank"
    /\ UNCHANGED <<added, frame, builder, build_result, trainerVars, panic, pop_fitness, dead_pop,
                   crossover_pop, copy_pop, i, j, strat_pos, families, child_pos,
                   p_a_i, p_b_i, histVars>>

\* calculate_pop_fitness, the first call of a generation.
CalculatePopFitness ==
    /\ pc = "rank"
    /\ population' \in Scored(population, fitness_fn)
    /\ pop_fitness' = RankedPairs(population')
    /\ ranked' = pop_fitness'
    /\ ranked_population' = population'
    /\ calls' = << >>
    /\ written' = << >>
    /\ pc' = "next_gen"
    /\ UNCHANGED <<added, frame, builder, build_result, fitness_fn, survival_rate, crossover_rate,
                   mutation_rate, crossover_strategies, crossover_weight_sum, panic,
                   generations, dead_pop, crossover_pop, copy_pop, i, j, strat_pos,
                   families, child_pos, p_a_i, p_b_i>>

\* (fitness_pairs.len() as f64 * (1.0 - survival_rate)) as usize
DeadCount(len, surv) == AsUsize(len * (surv[2] - surv[1]), surv[2])

\* (dead_pop.len() as f64 * self.crossover_rate) as usize
CrossoverCountAll(len, cross) == len
CrossoverCount(len, cross) == AsUsize(len * cross[1], cross[2])

\* fitness_pairs.drain(0..dead).collect(): the pairs drained, and the pairs
\* the drain leaves in fitness_pairs.
Drained(pairs, dead) == SubSeq(pairs, 1, dead)
AfterDrainKeepsAll(pairs, dead) == pairs
AfterDrain(pairs, dead) == SubSeq(pairs, dead + 1, Len(pairs))

\* create_next_gen up to its call of crossover: the dead prefix is drained
\* from fitness_pairs and split into crossover_pop and copy_pop.
CreateNextGen ==
    /\ pc = "next_gen"
    /\ LET dead == DeadCount(Len(pop_fitness), survival_rate)
           cut  == CrossoverCount(dead, crossover_rate)
           drained == Drained(pop_fitness, dead)
       IN  /\ dead_pop' = drained
           /\ pop_fitness' = AfterDrain(pop_fitness, dead)
           /\ crossover_pop' = SubSeq(drained, 1, cut)
           /\ copy_pop' = SubSeq(drained, cut + 1, dead)
    /\ i' = 0
    /\ strat_pos' = 0
    /\ pc' = "crossover"
    /\ UNCHANGED <<added, frame, builder, build_result, trainerVars, panic, generations, j,
                   families, child_pos, p_a_i, p_b_i, histVars>>

RECURSIVE Pow2(_)
Pow2(n) == IF n = 0 THEN 1 ELSE 2 * Pow2(n - 1)

\* 2^n modulo m.
RECURSIVE Pow2Mod(_, _)
Pow2Mod(n, m) == IF n = 0 THEN 1 % m ELSE (2 * Pow2Mod(n - 1, m)) % m

\* The least n with a * 2^n >= b (a, b > 0), and the greatest n with
\* a >= b * 2^n (a >= b > 0).
RECURSIVE Doublings(_, _)
Doublings(a, b) == IF a >= b THEN 0 ELSE 1 + Doublings(2 * a, b)
RECURSIVE Halvings(_, _)
Halvings(a, b) == IF a < 2 * b THEN 0 ELSE 1 + Halvings(a, 2 * b)

\* The f64 product (weight / weight_sum) * len is below the integer
\* n = weight * len / weight_sum it stands for.  The quotient q has the
\* exponent e (2^e <= q < 2^(e+1)) and a mantissa of 53 bits: what the
\* division drops is rem / weight_sum of the last bit, rounded to nearest.
\* When q is rounded down, the product is n - rem / weight_sum * len * 2^(e-52),
\* which rounds to the f64 before n when it is nearer to it than to n: the
\* f64 before n is 2^(k-52) away from n, 2^(k-53) when n is 2^k
\* (2^k <= n < 2^(k+1)), and a tie goes to n, whose mantissa is even.
ProductBelow(weight, weight_sum, len, n) ==
    LET down == IF weight < weight_sum THEN Doublings(weight, weight_sum) ELSE 0
        up   == IF weight >= weight_sum THEN Halvings(weight, weight_sum) ELSE 0
        rem  == (weight * Pow2Mod(52 + down - up, weight_sum)) % weight_sum
        k    == Halvings(n, 1)
        gap  == rem * len * (IF n > Pow2(k) THEN 2 ELSE 4)
    IN  /\ rem # 0
        /\ 2 * rem < weight_sum
        /\ gap * Pow2(up) > weight_sum * Pow2(k) * Pow2(down)

\* (((strat.get_weight() as f64) / (self.crossover_weight_sum as f64))
\*    * crossover_pop.len() as f64) as usize, in f64 arithmetic: 0/0 is NaN,
\* which casts to 0; a product that is not an integer is truncated; one that
\* is an integer n comes out as n, or as the f64 before n, which truncates to
\* n - 1.  (crossover_weight_sum is at least every weight of the trainer, so
\* a positive weight is never divided by 0.)
Share(weight, weight_sum, len) ==
    IF weight_sum = 0 \/ weight = 0 \/ len = 0 THEN 0
    ELSE IF (weight * len) % weight_sum # 0 THEN (weight * len) \div weight_sum
    ELSE IF ProductBelow(weight, weight_sum, len, (weight * len) \div weight_sum)
         THEN (weight * len) \div weight_sum - 1
         ELSE (weight * len) \div weight_sum

\* One turn of crossover's loop, up to the call of create_offspring with
\* &crossover_pop[i..j]; a slice whose start is past its end panics.
CrossoverStrategy ==
    /\ pc = "crossover"
    /\ strat_pos < Len(crossover_strategies)
    /\ LET strat == crossover_strategies[strat_pos + 1]
           end   == Share(GetWeight(strat), crossover_weight_sum, Len(crossover_pop))
       IN  IF i > end
           THEN /\ pc' = "panic"
                /\ panic' = SliceOrderMsg
                /\ UNCHANGED <<j, families, calls>>
           ELSE /\ j' = end
                /\ families' = << >>
                /\ calls' = Append(calls, [strat_pos |-> strat_pos,
                                           pool |-> pop_fitness,
                                           slots |-> SubSeq(crossover_pop, i + 1, end)])
                /\ pc' = "offspring"
                /\ UNCHANGED panic
    /\ UNCHANGED <<added, frame, builder, build_result, trainerVars, generations, pop_fitness,
                   dead_pop, crossover_pop, copy_pop, i, strat_pos, child_pos,
                   p_a_i, p_b_i, ranked, ranked_population, written>>

\* The strategy at work and the slice it was given.
Strat == crossover_strategies[strat_pos + 1]
Slots == SubSeq(crossover_pop, i + 1, j)

\* The CrossoverFamily a strategy pushes for the pair it is at, with parents
\* at positions a and b (from 0) of the parent pool.
FamilyChildAtParent(pair, a, b) ==
    [child_index |-> pop_fitness[a + 1].index,
     parent_a_index |-> pop_fitness[a + 1].index,
     parent_b_index |-> pop_fitness[b + 1].index,
     parent_a_fitness |-> pop_fitness[a + 1].fitness,
     parent_b_fitness |-> pop_fitness[b + 1].fitness]
FamilyChildFitness(pair, a, b) ==
    [child_index |-> pair.index,
     parent_a_index |-> pop_fitness[a + 1].index,
     parent_b_index |-> pop_fitness[b + 1].index,
     parent_a_fitness |-> pair.fitness,
     parent_b_fitness |-> pop_fitness[b + 1].fitness]
Family(pair, a, b) ==
    [child_index |-> pair.index,
     parent_a_index |-> pop_fitness[a + 1].index,
     parent_b_index |-> pop_fitness[b + 1].index,
     parent_a_fitness |-> pop_fitness[a + 1].fitness,
     parent_b_fitness |-> pop_fitness[b + 1].fitness]

\* A tournament over pool: the first draw, then each challenger replaces the
\* champion when its fitness is greater.
RECURSIVE TournamentWinner(_, _)
TournamentWinner(pool, draws) ==
    IF Len(draws) = 1 THEN draws[1]
    ELSE LET champion   == TournamentWinner(pool, SubSeq(draws, 1, Len(draws) - 1))
             challenger == draws[Len(draws)]
         IN  IF pool[challenger + 1].fitness > pool[champion + 1].fitness
             THEN challenger ELSE champion

\* The number of draws of one tournament: one, and one per turn of 1..rounds.
TournamentDraws(rounds) == IF rounds >= 1 THEN rounds ELSE 1

OffspringUnchanged ==
    UNCHANGED <<added, frame, builder, build_result, trainerVars, generations, pop_fitness, dead_pop,
                crossover_pop, copy_pop, i, j, strat_pos, child_pos, histVars>>

\* TournamentStrategy::create_offspring, one pair of crossover_pop.
TournamentOffspring ==
    /\ pc = "offspring"
    /\ Strat.kind = "Tournement"
    /\ Len(families) < Len(Slots)
    /\ IF Len(pop_fitness) = 0
       THEN /\ pc' = "panic"
            /\ panic' = EmptyRangeMsg
            /\ UNCHANGED families
       ELSE /\ \E da, db \in [1..TournamentDraws(Strat.rounds) -> 0..(Len(pop_fitness) - 1)] :
                 families' = Append(families,
                                    Family(Slots[Len(families) + 1],
                                           TournamentWinner(pop_fitness, da),
                                           TournamentWinner(pop_fitness, db)))
            /\ UNCHANGED <<pc, panic>>
    /\ UNCHANGED <<p_a_i, p_b_i>>
    /\ OffspringUnchanged

\* (parent_fitness_pairs.len() as f64 * self.rate).max(1.0) as usize
PrimeParentCount(len, rate) ==
    IF AsUsize(len * rate[1], rate[2]) >= 1 THEN AsUsize(len * rate[1], rate[2]) ELSE 1

\* PrimeParentStrategy::create_offspring, one pair of crossover_pop up to its
\* while loop: both parents are drawn from the top prime_parent_count.  With
\* fewer pairs than prime_parent_count, len - prime_parent_count is below zero:
\* the wrapped value starts a range that ends at len, which is empty.
PrimeParentOffspring ==
    /\ pc = "offspring"
    /\ Strat.kind = "PrimeParent"
    /\ Len(families) < Len(Slots)
    /\ LET len   == Len(pop_fitness)
           count == PrimeParentCount(len, Strat.rate)
       IN  IF count > len
           THEN /\ pc' = "panic"
                /\ panic' \in WrappedSubtract(EmptyRangeMsg)
                /\ UNCHANGED <<families, p_a_i, p_b_i>>
           ELSE \E a, b \in (len - count)..(len - 1) :
                  /\ p_a_i' = a
                  /\ p_b_i' = b
                  /\ IF a = b
                     THEN /\ pc' = "redraw"
                          /\ UNCHANGED families
                     ELSE /\ families' = Append(families,
                                                Family(Slots[Len(families) + 1], a, b))
                          /\ UNCHANGED pc
                  /\ UNCHANGED panic
    /\ OffspringUnchanged

\* One turn of PrimeParentStrategy's while p_a_i == p_b_i loop.
PrimeParentRedraw ==
    /\ pc = "redraw"
    /\ LET len   == Len(pop_fitness)
           count == PrimeParentCount(len, Strat.rate)
       IN  \E b \in (len - count)..(len - 1) :
             /\ p_b_i' = b
             /\ IF p_a_i = b
                THEN UNCHANGED <<pc, families>>
                ELSE /\ families' = Append(families,
                                           Family(Slots[Len(families) + 1], p_a_i, b))
                     /\ pc' = "offspring"
    /\ UNCHANGED <<panic, p_a_i>>
    /\ OffspringUnchanged

\* The sum of the pool's fitness values.
RECURSIVE FitnessSum(_)
FitnessSum(pool) ==
    IF Len(pool) = 0 THEN 0 ELSE pool[1].fitness + FitnessSum(Tail(pool))

\* The indices (rng.gen_range(0.0..fitness_sum) * len) as usize can give:
\* every k with k / len < fitness_sum; len stands for every index past the pool.
RouletteIndices(fitness_sum, len) ==
    { k \in 0..len : k < fitness_sum * len }

\* RouletteStrategy::create_offspring, one pair of crossover_pop.
RouletteOffspring ==
    /\ pc = "offspring"
    /\ Strat.kind = "Roulette"
    /\ Len(families) < Len(Slots)
    /\ LET len == Len(pop_fitness)
           fitness_sum == FitnessSum(pop_fitness)
       IN  IF fitness_sum <= 0
           THEN /\ pc' = "panic"
                /\ panic' = EmptyRangeMsg
                /\ UNCHANGED families
           ELSE \E a, b \in RouletteIndices(fitness_sum, len) :
                  IF a >= len \/ b >= len
                  THEN /\ pc' = "panic"
                       /\ panic' = IndexMsg
                       /\ UNCHANGED families
                  ELSE /\ families' = Append(families,
                                             Family(Slots[Len(families) + 1], a, b))
                       /\ UNCHANGED <<pc, panic>>
    /\ UNCHANGED <<p_a_i, p_b_i>>
    /\ OffspringUnchanged

\* create_offspring returns its children to crossover.
OffspringReturn ==
    /\ pc = "offspring"
    /\ Len(families) = Len(Slots)
    /\ pc' = "children"
    /\ child_pos' = 0
    /\ UNCHANGED <<added, frame, builder, build_result, trainerVars, panic, generations, pop_fitness,
                   dead_pop, crossover_pop, copy_pop, i, j, strat_pos, families,
                   p_a_i, p_b_i, histVars>>

\* The draws of one from_parents call, each from S: one per weight of p1.
RECURSIVE DrawsOver(_, _)
DrawsOver(layers, S) ==
    IF Len(layers) = 0 THEN { << >> }
    ELSE { Append(ds, [w |-> m]) :
             ds \in DrawsOver(SubSeq(layers, 1, Len(layers) - 1), S),
             m \in [DOMAIN layers[Len(layers)].w ->
                      [DOMAIN layers[Len(layers)].w[1] -> S]] }
DrawsLike(layers) == DrawsOver(layers, Draws)

\* create_child: the children it can return for the nets at the two parent
\* slots, one per outcome of from_parents's draws, each with its fitness set.
CreateChild(pop, fit_fn, parent_a_idx, parent_b_idx, p1_fitness, p2_fitness) ==
    LET p_a == pop[parent_a_idx + 1]
        p_b == pop[parent_b_idx + 1]
        from_parents == { FromParents(p_a, p_b, p1_fitness, p2_fitness, draws) :
                            draws \in DrawsLike(p_a.layers) }
    IN  UNION { WithFitness(fit_fn, child) : child \in from_parents }

\* The population after self.population[child_index] = child.
WriteChildPushes(pop, child_index, child) == Append(pop, child)
WriteChild(pop, child_index, child) == [pop EXCEPT ![child_index + 1] = child]

\* One turn of crossover's loop over families: the child is created and
\* written to its slot.
MaterialiseChild ==
    /\ pc = "children"
    /\ child_pos < Len(families)
    /\ LET family == families[child_pos + 1] IN
       \E child \in CreateChild(population, fitness_fn,
                                 family.parent_a_index, family.parent_b_index,
                                 family.parent_a_fitness, family.parent_b_fitness) :
          population' = WriteChild(population, family.child_index, child)
    /\ written' = Append(written, families[child_pos + 1].child_index)
    /\ child_pos' = child_pos + 1
    /\ UNCHANGED <<added, frame, builder, build_result, fitness_fn, survival_rate, crossover_rate,
                   mutation_rate, crossover_strategies, crossover_weight_sum, pc, panic,
                   generations, pop_fitness, dead_pop, crossover_pop, copy_pop, i, j,
                   strat_pos, families, p_a_i, p_b_i, ranked, ranked_population, calls>>

\* The end of one turn of crossover's loop: i = j, on to the next strategy.
NextStrategy ==
    /\ pc = "children"
    /\ child_pos = Len(families)
    /\ i' = j
    /\ strat_pos' = strat_pos + 1
    /\ pc' = "crossover"
    /\ UNCHANGED <<added, frame, builder, build_result, trainerVars, panic, generations, pop_fitness,
                   dead_pop, crossover_pop, copy_pop, j, families, child_pos,
                   p_a_i, p_b_i, histVars>>

\* crossover returns to create_next_gen, whose next statement is
\* todo!("Generate from copy"): the panic unwinds train, so the call of
\* mutate_population after create_next_gen is never reached.
GenerateFromCopyTodo ==
    /\ pc = "crossover"
    /\ strat_pos = Len(crossover_strategies)
    /\ pc' = "panic"
    /\ panic' = TodoMsg
    /\ UNCHANGED <<added, frame, builder, build_result, trainerVars, generations, pop_fitness,
                   dead_pop, crossover_pop, copy_pop, i, j, strat_pos, families,
                   child_pos, p_a_i, p_b_i, histVars>>

\* ------------------------------------------------------------ builder calls
NoResult == [tag |-> "None", msg |-> ""]

BuilderUnchanged ==
    UNCHANGED <<frame, trainerVars, pc, panic, generations, pop_fitness, dead_pop,
                crossover_pop, copy_pop, i, j, strat_pos, families, child_pos,
                p_a_i, p_b_i, histVars>>

\* TrainerBuilder::set_population_size
SetPopulationSize(size) ==
    /\ pc = "builder"
    /\ builder' = [builder EXCEPT !.population_size = <<size>>]
    /\ build_result' = NoResult
    /\ UNCHANGED added
    /\ BuilderUnchanged

\* TrainerBuilder::set_architecture
SetArchitecture(architecture) ==
    /\ pc = "builder"
    /\ builder' = [builder EXCEPT !.architecture = <<architecture>>]
    /\ build_result' = NoResult
    /\ UNCHANGED added
    /\ BuilderUnchanged

\* TrainerBuilder::set_survival_rate
SetSurvivalRate(rate) ==
    /\ pc = "builder"
    /\ builder' = [builder EXCEPT !.survival_rate = <<rate>>]
    /\ build_result' = NoResult
    /\ UNCHANGED added
    /\ BuilderUnchanged

\* TrainerBuilder::set_crossover_rate
SetCrossoverRate(rate) ==
    /\ pc = "builder"
    /\ builder' = [builder EXCEPT !.crossover_rate = <<rate>>]
    /\ build_result' = NoResult
    /\ UNCHANGED added
    /\ BuilderUnchanged

\* TrainerBuilder::set_mutation_rate
SetMutationRate(rate) ==
    /\ pc = "builder"
    /\ builder' = [builder EXCEPT !.mutation_rate = <<rate>>]
    /\ build_result' = NoResult
    /\ UNCHANGED added
    /\ BuilderUnchanged

\* TrainerBuilder::set_fitness_function
SetFitnessFunction(fit_fn) ==
    /\ pc = "builder"
    /\ builder' = [builder EXCEPT !.fitness_function = <<fit_fn>>]
    /\ build_result' = NoResult
    /\ UNCHANGED added
    /\ BuilderUnchanged

\* TrainerBuilder::add_parent_selection_strategy
AddParentSelectionStrategy(strategy) ==
    /\ pc = "builder"
    /\ Len(added) < MaxAdds
    /\ added' = Append(added, strategy)
    /\ builder' = [builder EXCEPT
                     !.parent_strategies = AddStrategy(builder.parent_strategies, strategy)]
    /\ build_result' = NoResult
    /\ BuilderUnchanged

\* The panics spawn_population ends in: those of the fitness function on the
\* first net EvoNet::new makes (every net of an architecture has its shape).
SpawnPanics(architecture, fit_fn) ==
    UNION { FitnessFnPanics(fit_fn, net) : net \in EvoNetNew(architecture) }

\* TrainerBuilder::build: an error of BuildCheck is returned and nothing else
\* happens; else EvoTrainer::initialize runs, and the trainer it made is
\* returned unless the fitness function panics on the first net spawned.
Build ==
    /\ pc = "builder"
    /\ IF BuildCheck(builder).tag # "Ok"
       THEN /\ build_result' = BuildCheck(builder)
            /\ UNCHANGED <<trainerVars, pc, panic>>
       ELSE IF SpawnPanics(builder.architecture[1], builder.fitness_function[1]) # { }
       THEN /\ \E msg \in SpawnPanics(builder.architecture[1],
                                       builder.fitness_function[1]) :
                 /\ panic' = msg
                 /\ build_result' = [tag |-> "Panic", msg |-> msg]
            /\ pc' = "panic"
            /\ UNCHANGED trainerVars
       ELSE /\ build_result' = BuildCheck(builder)
            /\ \E pop \in SpawnPopulation(builder.population_size[1],
                                          builder.architecture[1],
                                          builder.fitness_function[1]) :
                 LET trainer == Initialize(builder, pop) IN
                 /\ population' = trainer.population
                 /\ fitness_fn' = trainer.fitness_fn
                 /\ survival_rate' = trainer.survival_rate
                 /\ crossover_rate' = trainer.crossover_rate
                 /\ mutation_rate' = trainer.mutation_rate
                 /\ crossover_strategies' = trainer.crossover_strategies
                 /\ crossover_weight_sum' = trainer.crossover_weight_sum
            /\ pc' = "built"
            /\ UNCHANGED panic
    /\ UNCHANGED <<added, frame, builder, generations, pop_fitness, dead_pop, crossover_pop,
                   copy_pop, i, j, strat_pos, families, child_pos, p_a_i, p_b_i,
                   histVars>>

\* ------------------------------------------------------------ specification
\* The strategies handed to add_parent_selection_strategy.
Weights == {0, 1}
StrategyInputs ==
    { Tournement(w, 2) : w \in Weights }
    \cup { PrimeParent(w, <<1, 1>>) : w \in Weights }
    \cup { Roulette(w) : w \in Weights }

\* The strategy lists of the trainers that are trained: none, each variant on
\* its own, and two variants of which the second has the weight 0.
TrainStrategies ==
    { << >>,
      <<Tournement(1, 2)>>,
      <<PrimeParent(1, <<1, 1>>)>>,
      <<Roulette(1)>>,
      <<Tournement(1, 2), Roulette(0)>> }

\* The builders with these strategy lists, survival rates and crossover rates,
\* every other field a value build accepts.
BuildersOf(strategies, survival, crossover) ==
    [parent_strategies : strategies,
     population_size   : { <<n>> : n \in 2..MaxPop },
     survival_rate     : survival,
     crossover_rate    : crossover,
     mutation_rate     : { << <<1, 2>> >> },
     architecture      : { << <<2, 1>> >> },
     fitness_function  : { <<f>> : f \in FitnessFns }]

\* The builders whose trainers are trained: every strategy list with a quarter
\* of the pool surviving and the crossover rate unset or 1.0; PrimeParent with
\* half of the pool surviving; one strategy with the whole pool surviving; and
\* each variant with survival_rate unset, where the parent pool is empty.
TrainBuilders ==
    BuildersOf(TrainStrategies, { << <<1, 4>> >> }, { << >>, << <<1, 1>> >> })
    \cup BuildersOf({ <<PrimeParent(1, <<1, 1>>)>> }, { << <<1, 2>> >> }, { << <<1, 1>> >> })
    \cup BuildersOf({ <<Tournement(1, 2)>> }, { << <<1, 1>> >> }, { << <<1, 1>> >> })
    \cup BuildersOf({ <<Tournement(1, 2)>>, <<PrimeParent(1, <<1, 1>>)>>, <<Roulette(1)>> },
                    { << >> }, { << <<1, 1>> >> })

\* The state after a build of the builder that returned Ok(trainer), the
\* population spawned being one of pops.
BuiltWith(pops) ==
    /\ build_result = BuildCheck(builder)
    /\ build_result.tag = "Ok"
    /\ SpawnPanics(builder.architecture[1], builder.fitness_function[1]) = { }
    /\ \E pop \in pops :
         LET trainer == Initialize(builder, pop) IN
         /\ population = trainer.population
         /\ fitness_fn = trainer.fitness_fn
         /\ survival_rate = trainer.survival_rate
         /\ crossover_rate = trainer.crossover_rate
         /\ mutation_rate = trainer.mutation_rate
         /\ crossover_strategies = trainer.crossover_strategies
         /\ crossover_weight_sum = trainer.crossover_weight_sum
    /\ pc = "built"
    /\ panic = ""
    /\ generations = 0
    /\ pop_fitness = << >>
    /\ dead_pop = << >>
    /\ crossover_pop = << >>
    /\ copy_pop = << >>
    /\ i = 0
    /\ j = 0
    /\ strat_pos = 0
    /\ families = << >>
    /\ child_pos = 0
    /\ p_a_i = 0
    /\ p_b_i = 0
    /\ ranked = << >>
    /\ ranked_population = << >>
    /\ calls = << >>
    /\ written = << >>
    /\ added = builder.parent_strategies
    /\ frame = NoCall

\* The state after a build that returned Ok(trainer), whatever was spawned.
Built ==
    BuiltWith(SpawnPopulation(builder.population_size[1], builder.architecture[1],
                              builder.fitness_function[1]))

Init ==
    /\ builder \in TrainBuilders
    /\ Built

Next ==
    \/ \E n \in 0..MaxGen : Train(n)
    \/ CalculatePopFitness
    \/ CreateNextGen
    \/ CrossoverStrategy
    \/ TournamentOffspring
    \/ PrimeParentOffspring
    \/ PrimeParentRedraw
    \/ RouletteOffspring
    \/ OffspringReturn
    \/ MaterialiseChild
    \/ NextStrategy
    \/ GenerateFromCopyTodo

Spec == Init /\ [][Next]_vars

\* ------------------------------------------------------------ the schedule's specification
\* Trainers whose crossover has slots for two strategies one after the other:
\* two strategies of different variants with the weights 1 and 2, every dead
\* slot a crossover slot, at least four of them, and two survivors.
SchedulePop == 6
ScheduleStrategies ==
    { <<Tournement(1, 2), Roulette(2)>>,
      <<Roulette(1), PrimeParent(2, <<1, 1>>)>>,
      <<PrimeParent(1, <<1, 1>>), Tournement(2, 2)>> }
ScheduleBuilders ==
    [parent_strategies : ScheduleStrategies,
     population_size   : { <<SchedulePop>> },
     survival_rate     : { << <<1, 4>> >> },
     crossover_rate    : { << <<1, 1>> >> },
     mutation_rate     : { << >> },
     architecture      : { << <<2, 1>> >> },
     fitness_function  : { <<f>> : f \in FitnessFns }]

\* The populations spawn_population makes when Layer::new draws the same
\* random value for both input weights of a net (nets that xor_fit_fn scores
\* -4.0, -2.0 and 2.0).
ScheduleNets(architecture) ==
    { net \in EvoNetNew(architecture) : net.layers[1].w[1][2] = net.layers[1].w[1][3] }
SchedulePopulations(b) ==
    [1..b.population_size[1] ->
        UNION { WithFitness(b.fitness_function[1], net) :
                  net \in ScheduleNets(b.architecture[1]) }]

InitSchedule ==
    /\ builder \in ScheduleBuilders
    /\ BuiltWith(SchedulePopulations(builder))

SpecSchedule == InitSchedule /\ [][Next]_vars

\* ------------------------------------------------------------ the ranking's specification
\* Trainers whose fitness function returns NaN for some nets, and the ranking
\* of a generation only: train up to the return of calculate_pop_fitness.
RankBuilders ==
    [parent_strategies : { << >> },
     population_size   : { <<n>> : n \in 2..MaxPop },
     survival_rate     : { << >>, << <<1, 2>> >> },
     crossover_rate    : { << >> },
     mutation_rate     : { << >> },
     architecture      : { << <<2, 1>> >> },
     fitness_function  : { <<f>> : f \in NaNFitnessFns }]

InitRank ==
    /\ builder \in RankBuilders
    /\ Built

NextRank ==
    \/ \E n \in 0..MaxGen : Train(n)
    \/ CalculatePopFitness

SpecRank == InitRank /\ [][NextRank]_vars

\* ------------------------------------------------------------ the builder's specification
\* The values handed to the builder's setters: rates below, inside and above
\* 0.0..=1.0, architectures with two inputs and with one, with a zero width,
\* with one width and with none.
BuilderRates == { <<0 - 1, 4>>, <<1, 2>>, <<5, 4>> }
BuilderArchitectures == { <<2, 1>>, <<1, 1>>, <<2, 0>>, <<1>>, << >> }
BuilderStrategies == { Tournement(1, 2), Roulette(1) }

\* The state after TrainerBuilder::new, no trainer built yet.
InitBuild ==
    /\ builder = BuilderNew
    /\ build_result = NoResult
    /\ population = << >>
    /\ fitness_fn = ""
    /\ survival_rate = <<0, 1>>
    /\ crossover_rate = <<0, 1>>
    /\ mutation_rate = <<0, 1>>
    /\ crossover_strategies = << >>
    /\ crossover_weight_sum = 0
    /\ pc = "builder"
    /\ panic = ""
    /\ generations = 0
    /\ pop_fitness = << >>
    /\ dead_pop = << >>
    /\ crossover_pop = << >>
    /\ copy_pop = << >>
    /\ i = 0
    /\ j = 0
    /\ strat_pos = 0
    /\ families = << >>
    /\ child_pos = 0
    /\ p_a_i = 0
    /\ p_b_i = 0
    /\ ranked = << >>
    /\ ranked_population = << >>
    /\ calls = << >>
    /\ written = << >>
    /\ added = << >>
    /\ frame = NoCall

NextBuild ==
    \/ \E size \in 0..MaxPop : SetPopulationSize(size)
    \/ \E architecture \in BuilderArchitectures : SetArchitecture(architecture)
    \/ \E rate \in BuilderRates : SetSurvivalRate(rate)
    \/ \E rate \in BuilderRates : SetCrossoverRate(rate)
    \/ \E rate \in BuilderRates : SetMutationRate(rate)
    \/ \E fit_fn \in FitnessFns : SetFitnessFunction(fit_fn)
    \/ \E strategy \in BuilderStrategies : AddParentSelectionStrategy(strategy)
    \/ Build

SpecBuild == InitBuild /\ [][NextBuild]_vars

\* ------------------------------------------------------------ the strategy list's specification
\* A new builder and calls of add_parent_selection_strategy only, with every
\* variant at two weights.
NextStrategies ==
    \E strategy \in StrategyInputs : AddParentSelectionStrategy(strategy)

SpecStrategies == InitBuild /\ [][NextStrategies]_vars

\* ------------------------------------------------------------ the genome's specification
\* EvoNet::from_parents and EvoNet::mutate run on their own, on nets of three
\* widths (two layers of one neuron, two weights each), and xor_fit_fn on the
\* nets of the architecture main.rs builds.
GenomeArchitecture == <<1, 1, 1>>
GenomeNets ==
    { [layers |-> ls, fitness |-> 0] :
        ls \in LayerSeqs(GenomeArchitecture, Len(GenomeArchitecture), SpawnWeights) }
\* The fitness values handed to from_parents.
GenomeFitness == { 0 - 1, 0, 1, 3 }

\* The draws of a call on a net of GenomeNets: one per weight.
GenomeDraws == LayerSeqs(GenomeArchitecture, Len(GenomeArchitecture), Draws)

\* A call of EvoNet::from_parents about to run: two nets, two fitness values,
\* and the draws the call will make.
FromParentsFrame(p1, p2, p1_fitness, p2_fitness, draws) ==
    [fn |-> "from_parents", p1 |-> p1, p2 |-> p2,
     p1_fitness |-> p1_fitness, p2_fitness |-> p2_fitness,
     draws |-> draws, returned |-> FALSE, ret |-> p1]

\* A call of EvoNet::mutate about to run: the net, the frequency, and the
\* draw and the normal sample of every weight.
Frequencies == { <<0, 1>>, <<1, 2>>, <<1, 1>> }
GenomeSamples == LayerSeqs(GenomeArchitecture, Len(GenomeArchitecture), NormalSamples)
MutateFrame(net, frequency, draws, samples) ==
    [fn |-> "mutate", net |-> net, frequency |-> frequency,
     draws |-> draws, samples |-> samples, returned |-> FALSE, ret |-> net]

\* The nets EvoNet::new makes for builder.set_architecture(&[2, 2, 1]).
XorArchitecture == <<2, 2, 1>>
XorNets == EvoNetNew(XorArchitecture)

\* A call of xor_fit_fn about to run on a net.
XorFitFnFrame(net) ==
    [fn |-> "xor_fit_fn", net |-> net, returned |-> FALSE, ret |-> 0]

\* xor_fit_fn runs and returns the score.
XorFitFnCall ==
    /\ frame.fn = "xor_fit_fn"
    /\ ~frame.returned
    /\ \E score \in XorFitFn(frame.net) :
         frame' = [frame EXCEPT !.returned = TRUE, !.ret = score]
    /\ UNCHANGED <<builder, build_result, trainerVars, trainVars, histVars, added>>

\* EvoNet::mutate runs; ret is the net as the call leaves it.
MutateCall ==
    /\ frame.fn = "mutate"
    /\ ~frame.returned
    /\ frame' = [frame EXCEPT
                   !.returned = TRUE,
                   !.ret = Mutate(frame.net, frame.frequency, frame.draws, frame.samples)]
    /\ UNCHANGED <<builder, build_result, trainerVars, trainVars, histVars, added>>

\* EvoNet::from_parents runs and returns the child.
FromParentsCall ==
    /\ frame.fn = "from_parents"
    /\ ~frame.returned
    /\ frame' = [frame EXCEPT
                   !.returned = TRUE,
                   !.ret = FromParents(frame.p1, frame.p2, frame.p1_fitness,
                                       frame.p2_fitness, frame.draws)]
    /\ UNCHANGED <<builder, build_result, trainerVars, trainVars, histVars, added>>

\* No trainer is built: a call is about to be made.
InitGenome ==
    /\ \/ \E p1 \in GenomeNets, p2 \in GenomeNets,
             p1_fitness \in GenomeFitness, p2_fitness \in GenomeFitness,
             draws \in GenomeDraws :
            frame = FromParentsFrame(p1, p2, p1_fitness, p2_fitness, draws)
       \/ \E net \in GenomeNets, frequency \in Frequencies,
             draws \in GenomeDraws, samples \in GenomeSamples :
            frame = MutateFrame(net, frequency, draws, samples)
       \/ \E net \in XorNets : frame = XorFitFnFrame(net)
    /\ builder = BuilderNew
    /\ build_result = NoResult
    /\ population = << >>
    /\ fitness_fn = ""
    /\ survival_rate = <<0, 1>>
    /\ crossover_rate = <<0, 1>>
    /\ mutation_rate = <<0, 1>>
    /\ crossover_strategies = << >>
    /\ crossover_weight_sum = 0
    /\ pc = "builder"
    /\ panic = ""
    /\ generations = 0
    /\ pop_fitness = << >>
    /\ dead_pop = << >>
    /\ crossover_pop = << >>
    /\ copy_pop = << >>
    /\ i = 0
    /\ j = 0
    /\ strat_pos = 0
    /\ families = << >>
    /\ child_pos = 0
    /\ p_a_i = 0
    /\ p_b_i = 0
    /\ ranked = << >>
    /\ ranked_population = << >>
    /\ calls = << >>
    /\ written = << >>
    /\ added = << >>

NextGenome ==
    \/ FromParentsCall
    \/ MutateCall
    \/ XorFitFnCall

SpecGenome == InitGenome /\ [][NextGenome]_vars

\* ------------------------------------------------------------ properties
\* The states from calculate_pop_fitness's return to the end of the generation.
Ranking == pc \in {"next_gen", "crossover", "offspring", "redraw", "children", "panic"}
\* The states from the split of the dead slots to the end of the generation.
Replacing == pc \in {"crossover", "offspring", "redraw", "children", "panic"}

\* The slots (from 0) the pairs of a sequence of FitnessPairs name.
IndicesOf(pairs) == { pairs[n].index : n \in DOMAIN pairs }

\* floor(pool_size * (1 - survival_rate)), the number of dead slots.
DeadSlots == (Len(ranked) * (survival_rate[2] - survival_rate[1])) \div survival_rate[2]

\* C1: train(n) with n >= 1 runs its n generations (ranking, replacement,
\* mutation) and returns normally: it never ends in a panic.
C1_TrainReturnsNormally == generations >= 1 => pc # "panic"

\* C2: the population holds population_size genomes after build and in every
\* state train reaches.
C2_PopulationSizeInvariant == Len(population) = builder.population_size[1]
C2_ChildWritten == Len(written) >= 1 /\ Len(population) = MaxPop

\* The share floor(weight_k / total_weight * |crossover_slots|) of the
\* strategy at position k (from 1), total_weight being the sum of the weights.
RECURSIVE PlainWeightSum(_)
PlainWeightSum(strategies) ==
    IF Len(strategies) = 0 THEN 0
    ELSE strategies[1].weight + PlainWeightSum(Tail(strategies))
ProportionalShare(k) ==
    IF PlainWeightSum(crossover_strategies) = 0 THEN 0
    ELSE (crossover_strategies[k].weight * Len(crossover_pop))
           \div PlainWeightSum(crossover_strategies)
\* The running cursor before the strategy at position k: the shares before it.
RECURSIVE Cursor(_)
Cursor(k) == IF k <= 1 THEN 0 ELSE Cursor(k - 1) + ProportionalShare(k - 1)

\* C3: the k-th strategy is given the slice of crossover_slots that starts at
\* the running cursor and has the length of its proportional share, and no
\* slice has its start past its end.
C3_SlicesFollowCursor ==
    /\ panic # SliceOrderMsg
    /\ \A c \in DOMAIN calls :
         calls[c].slots = SubSeq(crossover_pop, Cursor(c) + 1,
                                 Cursor(c) + ProportionalShare(c))

\* C4 as claimed: the parent pool of every create_offspring call is the full
\* ranking of the generation.
C4_PoolIsFullRanking == \A c \in DOMAIN calls : calls[c].pool = ranked
\* C4 as amended: the parent pool of every create_offspring call is the
\* ranking without its dead prefix, that is the ranked survivors only.
C4_PoolIsSurvivors ==
    \A c \in DOMAIN calls :
       /\ dead_pop \o calls[c].pool = ranked
       /\ Len(dead_pop) = DeadSlots
       /\ IndicesOf(calls[c].pool) \cap IndicesOf(dead_pop) = {}
C4_CalledWithDeadAndSurvivors ==
    \E c \in DOMAIN calls :
       Len(dead_pop) >= 1 /\ Len(calls[c].pool) >= 1 /\ Len(calls[c].slots) >= 1

\* C5: in a generation only the DeadSlots lowest-ranked slots are written:
\* every written slot is one of them, no slot is written twice, every other
\* slot holds the genome that was ranked, and nothing is written when
\* survival_rate is 1.0.
C5_OnlyDeadSlotsWritten ==
    Ranking =>
      /\ \A n \in DOMAIN written :
           \E m \in 1..DeadSlots : ranked[m].index = written[n]
      /\ \A n, m \in DOMAIN written : written[n] = written[m] => n = m
      /\ \A m \in (DeadSlots + 1)..Len(ranked) :
           population[ranked[m].index + 1] = ranked_population[ranked[m].index + 1]
      /\ survival_rate[1] = survival_rate[2] => written = << >>
C5_TwoSlotsWritten ==
    Len(written) >= 2 /\ DeadSlots < Len(ranked) /\ written[1] # written[2]

\* C6: when a generation is over, every copy slot has been filled (with a
\* mutated clone of an elite genome).
C6_CopySlotsFilled ==
    pc = "panic" =>
      \A n \in DOMAIN copy_pop : \E m \in DOMAIN written : written[m] = copy_pop[n].index

\* C7: calculate_pop_fitness returns one pair per slot, each with the fitness
\* fitness_fn gives the genome at its index, which is also the genome's cached
\* fitness, in non-decreasing order of fitness.
C7_RankingSortedPermutation ==
    pc = "next_gen" =>
      /\ Len(ranked) = Len(ranked_population)
      /\ IndicesOf(ranked) = 0..(Len(ranked_population) - 1)
      /\ \A n \in DOMAIN ranked :
           /\ ranked[n].fitness
                \in ApplyFitnessFn(fitness_fn, ranked_population[ranked[n].index + 1])
           /\ ranked_population[ranked[n].index + 1].fitness = ranked[n].fitness
      /\ \A n \in 1..(Len(ranked) - 1) : ranked[n].fitness <= ranked[n + 1].fitness
C7_RankedWithTieAndStep ==
    /\ pc = "next_gen"
    /\ Len(ranked) = MaxPop
    /\ ranked[1].fitness = ranked[2].fitness
    /\ ranked[2].fitness < ranked[MaxPop].fitness
    /\ ranked[1].index > ranked[2].index

\* C8 as claimed: with crossover_rate 0.0 and strategies configured, no
\* create_offspring is invoked.
C8_NoStrategyInvoked ==
    (crossover_rate[1] = 0 /\ Len(crossover_strategies) > 0) => calls = << >>
\* C8 as amended: with crossover_rate 0.0 and strategies configured, every dead
\* slot is a copy slot and every create_offspring invoked is given an empty
\* slice, so no family is made and no slot is written.
C8_OnlyEmptySlices ==
    (crossover_rate[1] = 0 /\ Len(crossover_strategies) > 0 /\ Replacing) =>
      /\ Len(dead_pop) = DeadSlots
      /\ copy_pop = dead_pop
      /\ \A c \in DOMAIN calls : calls[c].slots = << >>
      /\ families = << >>
      /\ written = << >>
C8_InvokedWithEmptySlice ==
    /\ crossover_rate[1] = 0
    /\ Len(calls) = Len(crossover_strategies)
    /\ Len(calls) >= 2
    /\ Len(copy_pop) >= 2
    /\ pc = "panic"

\* C9: a builder with no strategy builds a trainer whose crossover_rate is 0
\* whatever rate was set: every dead slot is a copy slot and no
\* create_offspring is invoked.
C9_NoStrategyNoCrossover ==
    Len(builder.parent_strategies) = 0 =>
      /\ crossover_rate = <<0, 1>>
      /\ calls = << >>
      /\ written = << >>
      /\ Replacing => (Len(dead_pop) = DeadSlots /\ copy_pop = dead_pop)
C9_RateSetNoStrategy ==
    /\ Len(builder.parent_strategies) = 0
    /\ builder.crossover_rate = << <<1, 1>> >>
    /\ pc = "panic"
    /\ Len(copy_pop) >= 2

\* What build is to reject: a required field unset, or a value out of range.
FieldUnset(b) ==
    Len(b.population_size) = 0 \/ Len(b.architecture) = 0 \/ Len(b.fitness_function) = 0
OutsideUnit(opt) == Len(opt) = 1 /\ (opt[1][1] < 0 \/ opt[1][1] > opt[1][2])
ValueInvalid(b) ==
    \/ b.population_size[1] <= 1
    \/ \E n \in DOMAIN b.architecture[1] : b.architecture[1][n] = 0
    \/ OutsideUnit(b.survival_rate)
    \/ OutsideUnit(b.crossover_rate)
    \/ OutsideUnit(b.mutation_rate)

\* C10: build returns VariableNotSet when population_size, architecture or the
\* fitness function is unset, and ValidationError when all are set and a value
\* is out of range; either way no trainer is made, nothing panics and the
\* builder's fields are as they were.
C10_BuildRejects ==
    [][ build_result'.tag # "None" =>
          /\ builder' = builder
          /\ FieldUnset(builder) =>
               /\ build_result'.tag = "VariableNotSet"
               /\ pc' = "builder"
               /\ UNCHANGED trainerVars
          /\ (~FieldUnset(builder) /\ ValueInvalid(builder)) =>
               /\ build_result'.tag = "ValidationError"
               /\ pc' = "builder"
               /\ UNCHANGED trainerVars ]_vars
C10_RateRejected ==
    /\ build_result.tag = "ValidationError"
    /\ builder.population_size = <<2>>
    /\ builder.architecture = << <<2, 1>> >>
    /\ builder.mutation_rate = << <<5, 4>> >>
    /\ builder.survival_rate = << <<1, 2>> >>
    /\ pc = "builder"

\* C11: a build of a builder whose required fields are set and whose
\* architecture has fewer than two widths returns a ValidationError and makes
\* no trainer.
C11_ShortArchitectureRejected ==
    (build_result.tag # "None" /\ ~FieldUnset(builder)
       /\ Len(builder.architecture[1]) < 2) =>
      /\ build_result.tag = "ValidationError"
      /\ pc = "builder"
      /\ population = << >>

\* The variants among the first n strategies added.
KindsAdded(n) == { added[m].kind : m \in 1..n }
\* The last call that added a strategy of this variant.
LastAdded(kind) ==
    CHOOSE n \in DOMAIN added :
       /\ added[n].kind = kind
       /\ \A m \in DOMAIN added : added[m].kind = kind => m <= n

\* C12: the builder's strategy list holds one entry per variant added and no
\* more; the entry of a variant is the strategy of that variant added last,
\* and it is at the position where the variant was added first.
C12_OnePerVariantLatestWins ==
    LET list == builder.parent_strategies IN
    /\ \A n, m \in DOMAIN list : list[n].kind = list[m].kind => n = m
    /\ Len(list) = Cardinality(KindsAdded(Len(added)))
    /\ \A n \in DOMAIN added :
         added[n].kind \notin KindsAdded(n - 1) =>
           list[Cardinality(KindsAdded(n - 1)) + 1] = added[LastAdded(added[n].kind)]
C12_VariantReadded ==
    /\ Len(added) = 3
    /\ added[1].kind = added[3].kind
    /\ added[1] # added[3]
    /\ added[2].kind # added[1].kind
    /\ builder.parent_strategies = <<added[3], added[2]>>

\* draw > fitness_a / (fitness_a + fitness_b) in f64: a quotient by zero is
\* NaN (0/0, exceeded by nothing), +inf (exceeded by nothing) or -inf.
ExceedsRatio(draw, fitness_a, fitness_b) ==
    LET sum == fitness_a + fitness_b IN
    CASE sum > 0 -> draw[1] * sum > fitness_a * draw[2]
      [] sum < 0 -> draw[1] * sum < fitness_a * draw[2]
      [] OTHER   -> fitness_a < 0

\* C13: the child from_parents returns has parent_a's topology; each of its
\* weights is parent_b's weight at that position when the position's draw
\* exceeds fitness_a / (fitness_a + fitness_b) and parent_a's otherwise; with
\* the fitness values (1.0, 0.0) it has parent_a's weights whatever the draws.
C13_ChildTakesWeightsByDraw ==
    (frame.fn = "from_parents" /\ frame.returned) =>
      LET a == frame.p1.layers
          b == frame.p2.layers
          c == frame.ret.layers
      IN  /\ DOMAIN c = DOMAIN a
          /\ \A l \in DOMAIN a :
                /\ DOMAIN c[l].w = DOMAIN a[l].w
                /\ \A n \in DOMAIN a[l].w :
                      /\ DOMAIN c[l].w[n] = DOMAIN a[l].w[n]
                      /\ \A k \in DOMAIN a[l].w[n] :
                            c[l].w[n][k] =
                              IF ExceedsRatio(frame.draws[l].w[n][k],
                                              frame.p1_fitness, frame.p2_fitness)
                              THEN b[l].w[n][k] ELSE a[l].w[n][k]
          /\ (frame.p1_fitness = 1 /\ frame.p2_fitness = 0) => c = a
C13_AllDrawsAtOne ==
    /\ frame.fn = "from_parents"
    /\ frame.returned
    /\ frame.p1_fitness = 1
    /\ frame.p2_fitness = 0
    /\ \A l \in DOMAIN frame.p1.layers : \A n \in DOMAIN frame.p1.layers[l].w :
         \A k \in DOMAIN frame.p1.layers[l].w[n] :
            /\ frame.draws[l].w[n][k] = <<1, 1>>
            /\ frame.p1.layers[l].w[n][k] # frame.p2.layers[l].w[n][k]
    /\ frame.ret.layers = frame.p1.layers

\* C14: mutate(0.0) leaves every weight of the net as it was, whatever the
\* draws of the weights.
C14_ZeroFrequencyChangesNothing ==
    (frame.fn = "mutate" /\ frame.returned /\ frame.frequency[1] = 0) =>
      frame.ret.layers = frame.net.layers

\* C15: PrimeParentStrategy's redraw of parent B until it differs from parent A
\* is only at work when the elite window max(1, floor(pool_size * rate)) has
\* at least two slots, so that a draw can end it.
C15_RedrawHasTwoSlots ==
    pc = "redraw" => PrimeParentCount(Len(pop_fitness), Strat.rate) >= 2

\* C16: the trainer's crossover_weight_sum, by which crossover divides each
\* strategy's weight, is the sum of the weights of its strategies.
C16_WeightSumIsPlainSum ==
    pc # "builder" => crossover_weight_sum = PlainWeightSum(crossover_strategies)

\* C17: when RouletteStrategy is at work on a pool whose fitness values are
\* all non-negative with a positive sum, every index it can compute is an
\* index of the pool, and it never panics on an index out of bounds.
C17_RouletteIndexInPool ==
    LET NonNegative == \A n \in DOMAIN pop_fitness : pop_fitness[n].fitness >= 0
        fitness_sum == FitnessSum(pop_fitness)
    IN  /\ (pc = "offspring" /\ Strat.kind = "Roulette" /\ Len(Slots) > 0
              /\ NonNegative /\ fitness_sum > 0) =>
             \A k \in RouletteIndices(fitness_sum, Len(pop_fitness)) :
                k < Len(pop_fitness)
        /\ (NonNegative /\ fitness_sum > 0) => panic # IndexMsg

\* C18: while the children of a strategy are materialised, the fitness values
\* of every family are the ones the generation's ranking holds for the two
\* parent slots, and both parent slots hold the genome that was ranked: no
\* write of the generation went to them.
C18_ParentsAsRanked ==
    pc = "children" =>
      \A f \in DOMAIN families :
         \A parent \in { <<families[f].parent_a_index, families[f].parent_a_fitness>>,
                          <<families[f].parent_b_index, families[f].parent_b_fitness>> } :
            /\ \E m \in DOMAIN ranked :
                  ranked[m].index = parent[1] /\ ranked[m].fitness = parent[2]
            /\ population[parent[1] + 1] = ranked_population[parent[1] + 1]
            /\ \A n \in DOMAIN written : written[n] # parent[1]
C18_SecondStrategyAfterWrites ==
    /\ pc = "children"
    /\ strat_pos = 1
    /\ child_pos = 1
    /\ Len(written) = 2
    /\ written[1] # written[2]
    /\ population[written[1] + 1] # ranked_population[written[1] + 1]
    /\ population[written[2] + 1] # ranked_population[written[2] + 1]

\* C19: in the ranking calculate_pop_fitness returns, every slot whose fitness
\* is NaN is below every slot whose fitness is a number.
C19_NaNRankedLowest ==
    pc = "next_gen" =>
      \A n, m \in DOMAIN ranked :
         (IsNaN(ranked[n].fitness) /\ ~IsNaN(ranked[m].fitness)) => n < m

====
